---- MODULE Spec2Model ----
(***************************************************************************)
(* The rollup update of update_data.py: execute_sql_files captures the set *)
(* identifiers, runs the generated base-table statements, rebuilds         *)
(* recent_set_additions from the delta and appends/prunes popular_themes.  *)
(* Every statement auto-commits, so one statement is one atomic step.      *)
(* Tables with an AUTO_INCREMENT key are sequences in key order.           *)
(***************************************************************************)
EXTENDS Integers, Sequences, FiniteSets

VARIABLES
    pc,             \* position of execute_sql_files
    sets,           \* table sets: rows [set_num, theme_id, year]
    themes,         \* table themes: the ids
    collection,     \* table collection: rows [user, set_num, collection_set_quantity]
    recent,         \* table recent_set_additions, in id order
    popular,        \* table popular_themes, in id order
    existing_sets,  \* temporary table existing_sets: the set_num values
    now,            \* the database clock NOW(), in weeks
    files,          \* what the generated sql_output files can state
    log,            \* logger.error lines of this run
    ok,             \* rollup statements that executed and committed in this run
    failed,         \* rollup statements that raised in this run
    sets0,          \* history: sets when the run started
    recent0,        \* history: recent_set_additions when the run started
    popular0        \* history: popular_themes when the run started

vars == <<pc, sets, themes, collection, recent, popular, existing_sets, now,
          files, log, ok, failed, sets0, recent0, popular0>>

db == <<sets, themes, collection, recent, popular>>
hist == <<sets0, recent0, popular0>>

(* ---------------- program constants ---------------- *)
RecentCap == 3
TopN == 5
RetentionWeeks == 12

(* ---------------- bounds ---------------- *)
MaxPopRows == 2
MaxTime == 13

(* ---------------- the data the runs draw from ---------------- *)
\* set_num is a varchar: a sequence of character codes (digits here)
Row(n, t, y) == [set_num |-> n, theme_id |-> t, year |-> y]

Catalog ==
    { Row(<<1, 1>>, 1, 2021), Row(<<2>>, 1, 2021), Row(<<9>>, 1, 2020),
      Row(<<1, 0>>, 1, 2020), Row(<<3>>, 2, 2021) }

CatalogThemes == {1, 2}

Legacy ==
    { Row(<<4>>, 3, 2019), Row(<<5>>, 4, 2019), Row(<<6>>, 5, 2019),
      Row(<<7>>, 6, 2019), Row(<<8>>, 6, 2019) }

AllThemes == 1..6

Own(u, n, q) == [user |-> u, set_num |-> n, collection_set_quantity |-> q]

(* ---------------- pure parts of the statements ---------------- *)
Min(a, b) == IF a <= b THEN a ELSE b

\* varchar comparison: character by character, a proper prefix sorts first
RECURSIVE StrLess(_, _)
StrLess(a, b) ==
    IF b = <<>> THEN FALSE
    ELSE IF a = <<>> THEN TRUE
    ELSE IF Head(a) # Head(b) THEN Head(a) < Head(b)
    ELSE StrLess(Tail(a), Tail(b))

\* ORDER BY s.year DESC, s.set_num DESC
RowBefore(a, b) ==
    \/ a.year > b.year
    \/ a.year = b.year /\ StrLess(b.set_num, a.set_num)

RECURSIVE OrderRows(_)
OrderRows(S) ==
    IF S = {} THEN <<>>
    ELSE LET first == CHOOSE a \in S : \A b \in S \ {a} : RowBefore(a, b)
         IN  <<first>> \o OrderRows(S \ {first})

\* CREATE TEMPORARY TABLE existing_sets AS SELECT set_num FROM sets
ExistingSnapshot(s) == { r.set_num : r \in s }

\* variant: the IS NULL filter of the anti-join is lost, every set counts as new
AllSetsNew(s, e) == s

\* FROM sets s LEFT JOIN existing_sets e ON s.set_num = e.set_num WHERE e.set_num IS NULL
NewSets(s, e) == { r \in s : r.set_num \notin e }

\* variant: the stale rows are not deleted
NothingDeleted(rec, s, e) == rec

\* DELETE r FROM recent_set_additions r WHERE EXISTS (new set of r's theme)
StaleDeleted(rec, s, e) ==
    LET keep(r) == ~ \E n \in NewSets(s, e) : n.theme_id = r.theme_id
    IN  SelectSeq(rec, keep)

\* SELECT COUNT(*) FROM recent_set_additions r2 WHERE r2.theme_id = t
RecentCount(rec, t) == Cardinality({ i \in DOMAIN rec : rec[i].theme_id = t })

\* variant: the INSERT selects from all of sets, not from the new ones
SelectedFromAll(rec, s, e) ==
    { r \in s : RecentCount(rec, r.theme_id) < RecentCap }

\* the rows the INSERT's SELECT yields; the SELECT is evaluated on the table
\* as it is before the statement inserts anything
RecentSelected(rec, s, e) ==
    { r \in NewSets(s, e) : RecentCount(rec, r.theme_id) < RecentCap }

RECURSIVE Project(_)
Project(rows) ==
    IF rows = <<>> THEN <<>>
    ELSE <<[set_num |-> Head(rows).set_num, theme_id |-> Head(rows).theme_id]>>
         \o Project(Tail(rows))

RecentInserted(rec, s, e) == Project(OrderRows(RecentSelected(rec, s, e)))

\* recent_set_additions_ibfk_1 and _ibfk_2
RecentFKOk(rows, s, th) ==
    \A i \in DOMAIN rows :
        /\ rows[i].set_num \in ExistingSnapshot(s)
        /\ rows[i].theme_id \in th

(* ---------------- popular_themes ---------------- *)
\* themes t JOIN sets s ON s.theme_id = t.id JOIN collection c ON c.set_num = s.set_num
ThemeOwnership(t, s, c) ==
    { o \in c : \E r \in s : r.set_num = o.set_num /\ r.theme_id = t }

\* GROUP BY t.id: a theme with no joined row forms no group
Groups(th, s, c) == { t \in th : ThemeOwnership(t, s, c) # {} }

RECURSIVE SumQty(_)
SumQty(S) ==
    IF S = {} THEN 0
    ELSE LET o == CHOOSE x \in S : TRUE
         IN  o.collection_set_quantity + SumQty(S \ {o})

\* SUM(c.collection_set_quantity) AS collection_count
CollectionCount(t, s, c) == SumQty(ThemeOwnership(t, s, c))

\* ORDER BY collection_count DESC LIMIT k: every order of the ties is possible
RECURSIVE TopSeqs(_, _, _, _)
TopSeqs(G, k, s, c) ==
    IF k = 0 \/ G = {} THEN { <<>> }
    ELSE LET top == { t \in G : \A u \in G :
                          CollectionCount(u, s, c) <= CollectionCount(t, s, c) }
         IN  UNION { { <<t>> \o q : q \in TopSeqs(G \ {t}, k - 1, s, c) } : t \in top }

\* variant: ORDER BY collection_count ascending
RECURSIVE BottomSeqs(_, _, _, _)
BottomSeqs(G, k, s, c) ==
    IF k = 0 \/ G = {} THEN { <<>> }
    ELSE LET low == { t \in G : \A u \in G :
                          CollectionCount(t, s, c) <= CollectionCount(u, s, c) }
         IN  UNION { { <<t>> \o q : q \in BottomSeqs(G \ {t}, k - 1, s, c) } : t \in low }

PopularSelectedAscending(th, s, c) == BottomSeqs(Groups(th, s, c), TopN, s, c)

PopularSelected(th, s, c) == TopSeqs(Groups(th, s, c), TopN, s, c)

\* the inserted rows; snapshot_date defaults to CURRENT_TIMESTAMP
RECURSIVE Stamp(_, _, _, _)
Stamp(q, s, c, t) ==
    IF q = <<>> THEN <<>>
    ELSE <<[theme_id |-> Head(q),
            collection_count |-> CollectionCount(Head(q), s, c),
            snapshot_date |-> t]>> \o Stamp(Tail(q), s, c, t)

\* variant: the comparison is <=, a row exactly 12 weeks old is deleted too
PrunedInclusive(pop, t) ==
    LET keep(r) == ~ (r.snapshot_date <= t - RetentionWeeks)
    IN  SelectSeq(pop, keep)

\* DELETE FROM popular_themes WHERE snapshot_date < DATE_SUB(NOW(), INTERVAL 12 WEEK)
Pruned(pop, t) ==
    LET keep(r) == ~ (r.snapshot_date < t - RetentionWeeks)
    IN  SelectSeq(pop, keep)

(* ---------------- foreign keys seen by the base-table statements ---------------- *)
\* popular_themes_ibfk_1 and recent_set_additions_ibfk_2 restrict deleting a theme
ThemeReferenced(t, rec, pop) ==
    \/ \E i \in DOMAIN rec : rec[i].theme_id = t
    \/ \E i \in DOMAIN pop : pop[i].theme_id = t

\* variant: recent_set_additions has no foreign key to sets
NoSetReference(n, rec) == FALSE

\* recent_set_additions_ibfk_1 restricts deleting a set
SetReferenced(n, rec) == \E i \in DOMAIN rec : rec[i].set_num = n

(* ---------------- the run ---------------- *)
MainFiles == [themes |-> CatalogThemes, sets |-> Catalog]

MainCollections == { { Own(1, <<3>>, 2), Own(2, <<3>>, 1) } }

Init ==
    /\ pc = "idle"
    /\ sets = {}
    /\ themes = {}
    /\ collection \in MainCollections
    /\ recent = <<>>
    /\ popular = <<>>
    /\ existing_sets = {}
    /\ now = 0
    /\ files = MainFiles
    /\ log = {}
    /\ ok = {}
    /\ failed = {}
    /\ sets0 = {}
    /\ recent0 = <<>>
    /\ popular0 = <<>>

\* main: one invocation of the job; a new connection has no temporary table
StartRun ==
    /\ pc \in {"idle", "done", "raised"}
    /\ Len(popular) < MaxPopRows
    /\ pc' = "create"
    /\ existing_sets' = {}
    /\ log' = {}
    /\ ok' = {}
    /\ failed' = {}
    /\ sets0' = sets
    /\ recent0' = recent
    /\ popular0' = popular
    /\ UNCHANGED <<db, now, files>>

\* except mysql.connector.Error around the whole function: log and re-raise
Raise(stmt) ==
    /\ pc' = "raised"
    /\ failed' = failed \cup {stmt}
    /\ log' = log \cup {"Database connection error"}
    /\ UNCHANGED <<db, existing_sets, now, files, ok, hist>>

\* CREATE TABLE IF NOT EXISTS popular_themes / recent_set_additions
CreateTables ==
    /\ pc = "create"
    /\ \/ /\ pc' = "capture"
          /\ ok' = ok \cup {"create"}
          /\ UNCHANGED <<db, existing_sets, now, files, log, failed, hist>>
       \/ Raise("create")

\* CREATE TEMPORARY TABLE existing_sets AS SELECT set_num FROM sets
CaptureExisting ==
    /\ pc = "capture"
    /\ \/ /\ existing_sets' = ExistingSnapshot(sets)
          /\ pc' = "load_themes"
          /\ ok' = ok \cup {"capture"}
          /\ UNCHANGED <<db, now, files, log, failed, hist>>
       \/ Raise("capture")

\* the except inside the file loop: log, skip the statement, go on
SkipCommand ==
    /\ log' = log \cup {"Error executing SQL"}
    /\ UNCHANGED <<pc, db, existing_sets, now, files, ok, failed, hist>>

\* one statement of themes_inserts.sql
ExecThemeCommand ==
    /\ pc = "load_themes"
    /\ \E t \in files.themes :
        \/ /\ themes' = themes \cup {t}
           /\ UNCHANGED <<pc, sets, collection, recent, popular, existing_sets,
                          now, files, log, ok, failed, hist>>
        \/ /\ ~ ThemeReferenced(t, recent, popular)
           /\ themes' = themes \ {t}
           /\ UNCHANGED <<pc, sets, collection, recent, popular, existing_sets,
                          now, files, log, ok, failed, hist>>
        \/ SkipCommand

ThemesFileDone ==
    /\ pc = "load_themes"
    /\ pc' = "load_sets"
    /\ UNCHANGED <<db, existing_sets, now, files, log, ok, failed, hist>>

\* one statement of sets_inserts.sql
ExecSetCommand ==
    /\ pc = "load_sets"
    /\ \E r \in files.sets :
        \/ /\ sets' = sets \cup {r}
           /\ UNCHANGED <<pc, themes, collection, recent, popular, existing_sets,
                          now, files, log, ok, failed, hist>>
        \/ /\ ~ SetReferenced(r.set_num, recent)
           /\ sets' = sets \ {r}
           /\ UNCHANGED <<pc, themes, collection, recent, popular, existing_sets,
                          now, files, log, ok, failed, hist>>
        \/ SkipCommand

\* variant: the temporary table is (re)created after the files were executed
SetsFileDoneRecapture ==
    /\ pc = "load_sets"
    /\ pc' = "delete"
    /\ existing_sets' = ExistingSnapshot(sets)
    /\ UNCHANGED <<db, now, files, log, ok, failed, hist>>

\* the remaining files touch none of the tables of the rollup
SetsFileDone ==
    /\ pc = "load_sets"
    /\ pc' = "delete"
    /\ UNCHANGED <<db, existing_sets, now, files, log, ok, failed, hist>>

\* DELETE r FROM recent_set_additions r WHERE EXISTS (...)
DeleteStale ==
    /\ pc = "delete"
    /\ \/ /\ recent' = StaleDeleted(recent, sets, existing_sets)
          /\ pc' = "insert"
          /\ ok' = ok \cup {"delete"}
          /\ UNCHANGED <<sets, themes, collection, popular, existing_sets, now,
                         files, log, failed, hist>>
       \/ Raise("delete")

\* INSERT INTO recent_set_additions (set_num, theme_id) SELECT ...
InsertRecent ==
    /\ pc = "insert"
    /\ LET rows == RecentInserted(recent, sets, existing_sets)
       IN  \/ /\ RecentFKOk(rows, sets, themes)
              /\ recent' = recent \o rows
              /\ pc' = "popular"
              /\ ok' = ok \cup {"insert"}
              /\ UNCHANGED <<sets, themes, collection, popular, existing_sets, now,
                             files, log, failed, hist>>
           \/ Raise("insert")

\* the except of the popular-themes block: log and fall through to the DROP
PopularError(stmt) ==
    /\ pc' = "drop"
    /\ failed' = failed \cup {stmt}
    /\ log' = log \cup {"Error updating popular themes"}
    /\ UNCHANGED <<db, existing_sets, now, files, ok, hist>>

\* INSERT INTO popular_themes (theme_id, collection_count) SELECT ... LIMIT 5
InsertPopular ==
    /\ pc = "popular"
    /\ \/ \E q \in PopularSelected(themes, sets, collection) :
            /\ popular' = popular \o Stamp(q, sets, collection, now)
            /\ pc' = "prune"
            /\ ok' = ok \cup {"popular"}
            /\ UNCHANGED <<sets, themes, collection, recent, existing_sets, now,
                           files, log, failed, hist>>
       \/ PopularError("popular")

\* DELETE FROM popular_themes WHERE snapshot_date < DATE_SUB(NOW(), INTERVAL 12 WEEK)
PrunePopular ==
    /\ pc = "prune"
    /\ \/ /\ popular' = Pruned(popular, now)
          /\ pc' = "drop"
          /\ ok' = ok \cup {"prune"}
          /\ UNCHANGED <<sets, themes, collection, recent, existing_sets, now,
                         files, log, failed, hist>>
       \/ PopularError("prune")

\* DROP TEMPORARY TABLE existing_sets; return cursor, conn
DropExisting ==
    /\ pc = "drop"
    /\ \/ /\ existing_sets' = {}
          /\ pc' = "done"
          /\ ok' = ok \cup {"drop"}
          /\ UNCHANGED <<db, now, files, log, failed, hist>>
       \/ Raise("drop")

\* the database clock
Tick ==
    /\ now < MaxTime
    /\ now' = now + 1
    /\ UNCHANGED <<pc, db, existing_sets, files, log, ok, failed, hist>>

Next ==
    \/ StartRun
    \/ CreateTables
    \/ CaptureExisting
    \/ ExecThemeCommand
    \/ ThemesFileDone
    \/ ExecSetCommand
    \/ SetsFileDone
    \/ DeleteStale
    \/ InsertRecent
    \/ InsertPopular
    \/ PrunePopular
    \/ DropExisting

Spec == Init /\ [][Next]_vars

(* ---------------- the popularity rollup over six themes ---------------- *)
PopFiles == [themes |-> {2}, sets |-> { Row(<<3>>, 2, 2021) }]

PopCollections ==
    { { Own(1, <<9>>, 6), Own(2, <<9>>, 4), Own(1, <<3>>, 8), Own(1, <<4>>, 8),
        Own(1, <<5>>, 5), Own(1, <<6>>, 4), Own(1, <<7>>, 1) },
      { Own(1, <<2>>, 10), Own(1, <<3>>, 8), Own(1, <<4>>, 5), Own(1, <<5>>, 5),
        Own(1, <<6>>, 4), Own(1, <<7>>, 3), Own(1, <<8>>, 1) },
      { Own(1, <<2>>, 2), Own(1, <<4>>, 1), Own(2, <<8>>, 3) },
      { Own(1, <<3>>, 2), Own(2, <<3>>, 1) } }

InitPop ==
    /\ pc = "idle"
    /\ sets = Catalog \cup Legacy
    /\ themes = AllThemes
    /\ collection \in PopCollections
    /\ recent = <<>>
    /\ popular = <<>>
    /\ existing_sets = {}
    /\ now = 0
    /\ files = PopFiles
    /\ log = {}
    /\ ok = {}
    /\ failed = {}
    /\ sets0 = Catalog \cup Legacy
    /\ recent0 = <<>>
    /\ popular0 = <<>>

NextPop == Next \/ Tick

SpecPop == InitPop /\ [][NextPop]_vars

(* ---------------- vocabulary of the properties ---------------- *)
Ids(s) == { r.set_num : r \in s }

\* NewItemIds: in the Item table now, absent from it when the run started
NewItems == { r \in sets : r.set_num \notin Ids(sets0) }

NewItemsOf(t) == { r \in NewItems : r.theme_id = t }

RowsOf(rec, t) == { i \in DOMAIN rec : rec[i].theme_id = t }

Occ(q, r) == Cardinality({ i \in DOMAIN q : q[i] = r })

RollupStatements == {"delete", "insert", "popular", "prune"}

AfterInsert == {"popular", "prune", "drop", "done"}

\* a's place among the rows of S under (year descending, identifier descending)
Rank(a, S) == Cardinality({ b \in S : RowBefore(b, a) })

(* ---------------- C1 ---------------- *)
\* C1: a run that starts with at most 3 RecentAddition rows in every category
\* has at most 3 rows in every category once its insert step has executed.
C1_CapAfterInsert ==
    ( /\ pc \in AfterInsert
      /\ "insert" \in ok
      /\ \A t \in AllThemes : Cardinality(RowsOf(recent0, t)) <= RecentCap )
    => \A t \in AllThemes : Cardinality(RowsOf(recent, t)) <= RecentCap

(* ---------------- C2 ---------------- *)
\* C2: in every state, every RecentAddition row references an item of the
\* current Item table and a category of the current Category table.
C2_ReferentialIntegrity ==
    \A i \in DOMAIN recent :
        /\ recent[i].set_num \in Ids(sets)
        /\ recent[i].theme_id \in themes

\* rows exist, a base-table statement of the run was skipped, the rollup ran
C2_Witness ==
    /\ pc = "done"
    /\ "Error executing SQL" \in log
    /\ "insert" \in ok
    /\ NewItems # {}
    /\ Ids(sets0) \ Ids(sets) # {}
    /\ Len(recent) >= 2

(* ---------------- C3 ---------------- *)
\* C3: a run with no new item leaves RecentAddition exactly as it was when
\* the run started, whatever it held (more than 3 rows of a category too).
C3_NoNewItemsNoChange ==
    (pc \notin {"idle"} /\ NewItems = {}) => recent = recent0

C3_Witness ==
    /\ pc = "done"
    /\ {"delete", "insert"} \subseteq ok
    /\ NewItems = {}
    /\ \E t \in AllThemes : Cardinality(RowsOf(recent0, t)) > RecentCap
    /\ recent = recent0

(* ---------------- C4 ---------------- *)
\* C4: the prune statement removes every snapshot row older than 12 weeks at
\* the time it runs and keeps every other row, this run's batch included.
C4_PruneStep ==
    (pc = "prune" /\ "prune" \in ok')
    => /\ \A j \in DOMAIN popular' :
            /\ popular'[j].snapshot_date + RetentionWeeks >= now
            /\ \E i \in DOMAIN popular : popular[i] = popular'[j]
       /\ \A i \in DOMAIN popular :
            popular[i].snapshot_date + RetentionWeeks >= now
            => Occ(popular', popular[i]) = Occ(popular, popular[i])

C4_PruneRetention == [][C4_PruneStep]_vars

\* a row of an earlier run was pruned and the batch of this run is there
C4_Witness ==
    /\ pc = "drop"
    /\ {"popular", "prune"} \subseteq ok
    /\ \E i \in DOMAIN popular0 : Occ(popular, popular0[i]) = 0
    /\ \E j \in DOMAIN popular : popular[j].snapshot_date = now

(* ---------------- C5 ---------------- *)
\* C5: when a statement of the rollup sequence fails, the failure is logged,
\* only that statement is skipped, every other rollup statement executes and
\* execute_sql_files returns.
C5_SkipAndContinue ==
    (pc \in {"done", "raised"} /\ failed \cap RollupStatements # {})
    => /\ pc = "done"
       /\ log # {}
       /\ RollupStatements \ failed \subseteq ok

(* ---------------- C6 ---------------- *)
\* C6: after a run whose rollup statements all succeeded, a category with new
\* items has at least one row, every row of it references a new item of that
\* category, and none of them is a row the table held before the run.
C6_FreshRows ==
    (pc = "done" /\ failed = {})
    => \A t \in AllThemes :
          NewItemsOf(t) # {}
          => /\ RowsOf(recent, t) # {}
             /\ \A i \in RowsOf(recent, t) :
                    /\ recent[i].set_num \in Ids(NewItemsOf(t))
                    /\ Occ(recent0, recent[i]) = 0

\* two categories got new items, one of them had rows before the run
C6_Witness ==
    /\ pc = "done"
    /\ failed = {}
    /\ \E t, u \in AllThemes :
          /\ t # u
          /\ NewItemsOf(t) # {}
          /\ NewItemsOf(u) # {}
          /\ RowsOf(recent0, t) # {}
          /\ RowsOf(recent, u) # {}

(* ---------------- C7 ---------------- *)
\* C7: a successful snapshot insert appends min(5, categories with ownership
\* data) rows, one per category, each with the category's summed count, and
\* no category left out has a strictly greater sum than one that is in.
C7_TopBatch ==
    (pc = "prune" /\ "popular" \in ok)
    => LET G == Groups(themes, sets, collection)
           n == Len(popular) - Len(popular0)
           batch == [k \in 1..n |-> popular[Len(popular0) + k]]
           inb == { batch[k].theme_id : k \in 1..n }
       IN  /\ Len(popular) >= Len(popular0)
           /\ \A i \in DOMAIN popular0 : popular[i] = popular0[i]
           /\ n = Min(TopN, Cardinality(G))
           /\ Cardinality(inb) = n
           /\ inb \subseteq G
           /\ \A k \in 1..n :
                batch[k].collection_count
                    = CollectionCount(batch[k].theme_id, sets, collection)
           /\ \A out \in G \ inb : \A in \in inb :
                CollectionCount(out, sets, collection)
                    <= CollectionCount(in, sets, collection)

\* six categories have ownership data: five rows go in, one category is cut
C7_Witness ==
    /\ pc = "prune"
    /\ "popular" \in ok
    /\ Cardinality(Groups(themes, sets, collection)) > TopN
    /\ Len(popular) = Len(popular0) + TopN

(* ---------------- C8 ---------------- *)
\* C8: from the capture to the DROP, existing_sets holds the identifiers the
\* Item table had when the run started, so the delete and the insert treat
\* as new exactly the items of the loaded table that were not in it then.
C8_BaselineBeforeLoad ==
    /\ pc \in {"load_themes", "load_sets", "delete", "insert", "popular", "prune", "drop"}
       => existing_sets = Ids(sets0)
    /\ pc \in {"delete", "insert"}
       => NewSets(sets, existing_sets) = NewItems

\* the load added items and removed others before the delete/insert ran
C8_Witness ==
    /\ pc = "insert"
    /\ NewItems # {}
    /\ Ids(sets0) \ Ids(sets) # {}
    /\ existing_sets # {}

(* ---------------- C9 ---------------- *)
\* C9: for a category with more than 3 new items, the rows inserted for it are
\* exactly its 3 newest new items by (year descending, identifier descending).
C9_ThreeNewest ==
    (pc = "popular" /\ "insert" \in ok)
    => \A t \in AllThemes :
          Cardinality(NewItemsOf(t)) > RecentCap
          => { recent[i].set_num : i \in RowsOf(recent, t) }
               = Ids({ a \in NewItemsOf(t) : Rank(a, NewItemsOf(t)) < RecentCap })

(* ---------------- C10 ---------------- *)
\* C10: when the insert fails after the delete has committed, the run ends
\* with the delete in place: a category with new items has no row left, the
\* rows of the other categories are those it had, the loaded items stay.
C10_PartialUpdate ==
    (pc = "raised" /\ "insert" \in failed)
    => /\ "delete" \in ok
       /\ \A t \in AllThemes : NewItemsOf(t) # {} => RowsOf(recent, t) = {}
       /\ \A i \in DOMAIN recent0 :
             NewItemsOf(recent0[i].theme_id) = {}
             => Occ(recent, recent0[i]) = Occ(recent0, recent0[i])
       /\ recent # recent0 => NewItems # {}

\* a category with new items lost the rows it had and got none
C10_Witness ==
    /\ pc = "raised"
    /\ "insert" \in failed
    /\ \E t \in AllThemes :
          /\ NewItemsOf(t) # {}
          /\ RowsOf(recent0, t) # {}
          /\ RowsOf(recent, t) = {}
    /\ NewItems \subseteq sets

====
